---- MODULE Spec2Model ----
(***************************************************************************)
(* A model of class M3U (src/m3u.py): file enumeration, file name          *)
(* sanitising, stream probing, playlist URL validation, playlist           *)
(* generation and the sorted copy.                                         *)
(*                                                                         *)
(* A Python str is a sequence of one-character strings.  A directory is a  *)
(* function from entry names to [kind, mtime, data].                       *)
(***************************************************************************)
EXTENDS Integers, Sequences, FiniteSets, TLC

VARIABLES
    srcDir,     \* the source directory: entry name -> [kind, mtime, data]
    destDir,    \* the destination: [exists, files: name -> [data, mtime]]
    now,        \* the filesystem clock
    pc,         \* "idle", "copy", "urls" or "error" (an exception left the call)
    call,       \* the operation last called, with its arguments
    result,     \* what the last completed operation returned
    console,    \* what the current/last operation printed
    playlist,   \* the file create_playlist wrote: [name, lines], or NoFile
    todo,       \* the files the running loop has still to process
    copyLog,    \* history: the copies made by the running copy, in order
    lines,      \* check_urls: the lines of the playlist being checked
    idx,        \* check_urls: the index (from 0) of the next line
    probes,     \* history: check_stream's answers for the current playlist
    handles     \* the file and network handles that are open

vars == <<srcDir, destDir, now, pc, call, result, console, playlist, todo,
          copyLog, lines, idx, probes, handles>>

-----------------------------------------------------------------------------
(* Bounds of the model *)

MaxLen == 3

MaxFiles == 3

MaxMtime == 3

MaxLines == 2

-----------------------------------------------------------------------------
(* Python values *)

\* the strings over alphabet A of length at most n
StringsUpTo(A, n) == UNION {[1..k -> A] : k \in 0..n}

\* c in s, for a character c and a str s
CharIn(c, s) == \E i \in DOMAIN s : s[i] = c

\* s.startswith(p)
StartsWith(s, p) == Len(s) >= Len(p) /\ SubSeq(s, 1, Len(p)) = p

\* s.endswith(p)
EndsWith(s, p) == Len(s) >= Len(p) /\ SubSeq(s, Len(s) - Len(p) + 1, Len(s)) = p

\* s.replace(old, ''): every non-overlapping occurrence of old, left to right
RECURSIVE Remove(_, _)
Remove(s, old) ==
    IF old = <<>> \/ s = <<>> THEN s
    ELSE IF StartsWith(s, old)
         THEN Remove(SubSeq(s, Len(old) + 1, Len(s)), old)
         ELSE <<Head(s)>> \o Remove(Tail(s), old)

\* s.replace(a, b) for characters a and b
ReplaceChar(s, a, b) == [i \in DOMAIN s |-> IF s[i] = a THEN b ELSE s[i]]

\* s.split(c)[-1]: what follows the last c, the whole of s when it has none
RECURSIVE LastSegment(_, _)
LastSegment(s, c) ==
    IF s = <<>> THEN <<>>
    ELSE IF CharIn(c, Tail(s)) THEN LastSegment(Tail(s), c)
         ELSE IF Head(s) = c THEN Tail(s) ELSE s

-----------------------------------------------------------------------------
(* M3U.__init__ *)

playlists == << <<".", "m", "3", "u">>, <<".", "m", "3", "u", "8">> >>

songs == << <<".", "m", "p", "3">>, <<".", "m", "4", "a">>,
            <<".", "f", "l", "a", "c">> >>

-----------------------------------------------------------------------------
(* M3U.get_valid_filename *)

\* the default of rm_str
DefaultRm == <<"%", ":", "/", ",", "\\", "[", "]", "<", ">", "*", "?">>

get_valid_filename(src_str, rm_str) ==
    ReplaceChar(SelectSeq(src_str, LAMBDA c : ~CharIn(c, rm_str)), " ", "-")

-----------------------------------------------------------------------------
(* The file system *)

\* the path of the source directory, and its name (pth.name)
SrcName == <<"m", " ", "%", "x">>

SrcPath == <<"/">> \o SrcName

A_mp3 == <<"a", ".", "m", "p", "3">>

B_m4a == <<"b", ".", "m", "4", "a">>

C_flac == <<"c", ".", "f", "l", "a", "c">>

X_mp3_mp3 == <<"x", ".", "m", "p", "3", ".", "m", "p", "3">>

Dot_mp3 == <<".", "m", "p", "3">>

D_txt == <<"d", ".", "t", "x", "t">>

E_m3u == <<"e", ".", "m", "3", "u">>

F_m3u8 == <<"f", ".", "m", "3", "u", "8">>

\* a subdirectory whose name ends like a song's
G_mp3 == <<"g", ".", "m", "p", "3">>

FileNames == {A_mp3, B_m4a, C_flac, X_mp3_mp3, Dot_mp3, D_txt, E_m3u, F_m3u8}

DirNames == {G_mp3}

KindOf(n) == IF n \in DirNames THEN "dir" ELSE "file"

AllNames == FileNames \cup DirNames

\* the directories with at most MaxFiles entries named in N, last modified
\* at 1..M; the bytes of an entry are identified by its name
Dirs(N, M) ==
    {[n \in DOMAIN mt |-> [kind |-> KindOf(n), mtime |-> mt[n], data |-> n]] :
        mt \in UNION {[S -> 1..M] :
                         S \in {T \in SUBSET N : Cardinality(T) <= MaxFiles}}}

\* pathlib: Path.is_dir(), Path.is_file() (a subdirectory of the source is empty)
is_dir(source) ==
    source = SrcPath \/ (source \in DOMAIN srcDir /\ srcDir[source].kind = "dir")

is_file(source) == source \in DOMAIN srcDir /\ srcDir[source].kind = "file"

Listing(source) == IF source = SrcPath THEN DOMAIN srcDir ELSE {}

\* pathlib: Path.name
PathName(source) == IF source = SrcPath THEN SrcName ELSE source

\* pathlib: PurePath.suffix: from the last dot, unless the name starts or ends there
LastDot(name) ==
    IF CharIn(".", name)
    THEN CHOOSE i \in DOMAIN name :
             name[i] = "." /\ \A j \in DOMAIN name : name[j] = "." => j <= i
    ELSE 0

suffix(name) ==
    LET i == LastDot(name)
    IN  IF 1 < i /\ i < Len(name) THEN SubSeq(name, i, Len(name)) ELSE <<>>

\* pathlib: Path.glob('*' + ext): every entry, file or directory, hidden or
\* not, whose name ends with ext
glob(source, ext) == {n \in Listing(source) : EndsWith(n, ext)}

\* the orders in which a directory scan may yield the entries of S
Orders(S) ==
    {f \in [1..Cardinality(S) -> S] : \A i, j \in DOMAIN f : f[i] = f[j] => i = j}

Path(n) == [type |-> "Path", name |-> n]

Str(n) == [type |-> "str", name |-> n]

\* one line of output
Msg(m, a) == [msg |-> m, arg |-> a]

-----------------------------------------------------------------------------
(* The states before any call *)

NoCall == [op |-> "none"]

NoResult == [none |-> TRUE, ret |-> <<>>, exc |-> "none"]

NoPlaylist == [exists |-> FALSE, name |-> <<>>, lines |-> <<>>]

NoDest == [exists |-> FALSE, files |-> <<>>]

Quiet ==
    /\ now = MaxMtime
    /\ pc = "idle"
    /\ call = NoCall
    /\ result = NoResult
    /\ console = <<>>
    /\ playlist = NoPlaylist
    /\ todo = <<>>
    /\ copyLog = <<>>
    /\ lines = <<>>
    /\ idx = 0
    /\ probes = <<>>
    /\ handles = {}

-----------------------------------------------------------------------------
(* M3U.get_file_list: the set of its possible outcomes [none, ret, out]:    *)
(* none says that it returned None, ret is the list returned, out what it  *)
(* printed.  The order of a directory scan is the file system's.           *)

\* for ext in exts: files.extend(pth.glob(f'*{ext}'))
RECURSIVE GlobAll(_, _)
GlobAll(source, exts) ==
    IF exts = <<>> THEN {<<>>}
    ELSE {[i \in DOMAIN o |-> Path(o[i])] \o r :
              o \in Orders(glob(source, Head(exts))),
              r \in GlobAll(source, Tail(exts))}

InTuple(x, t) == \E i \in DOMAIN t : t[i] = x

get_file_list(source, filetype) ==
    IF filetype \notin {"p", "s"}
    THEN {[none |-> TRUE, ret |-> <<>>, out |-> <<Msg("bad filetype", <<>>)>>]}
    ELSE LET exts == IF filetype = "p" THEN playlists ELSE songs
         IN  IF is_dir(source)
             THEN {[none |-> FALSE, ret |-> fs,
                    out |-> IF Len(fs) = 0 THEN <<Msg("not found", source)>>
                            ELSE <<>>] : fs \in GlobAll(source, exts)}
             ELSE IF is_file(source)
                  THEN IF InTuple(suffix(source), exts)
                       THEN {[none |-> FALSE, ret |-> <<Str(source)>>, out |-> <<>>]}
                       ELSE {[none |-> FALSE, ret |-> <<>>,
                              out |-> <<Msg("not a playlist", <<>>)>>]}
                  ELSE {[none |-> FALSE, ret |-> <<>>,
                         out |-> <<Msg("bad path", source)>>]}

-----------------------------------------------------------------------------
(* sorted(songs, key = lambda s: s.stat().st_mtime) and reversed()          *)

\* s.stat().st_mtime of an entry of the source directory
st_mtime(s) == srcDir[s.name].mtime

\* x put into the sorted list l behind every element that is not newer: the
\* sort is stable
InsertSorted(l, x) ==
    LET p == Cardinality({i \in DOMAIN l : st_mtime(l[i]) <= st_mtime(x)})
    IN  SubSeq(l, 1, p) \o <<x>> \o SubSeq(l, p + 1, Len(l))

\* a faulty variant: the files taken in the order of the directory scan
sorted_Unsorted(l) == l

RECURSIVE sorted(_)
sorted(l) ==
    IF l = <<>> THEN <<>>
    ELSE InsertSorted(sorted(SubSeq(l, 1, Len(l) - 1)), l[Len(l)])

\* a faulty variant: the playlist written in the order of the sort
reversed_Forgotten(l) == l

reversed(l) == [i \in DOMAIN l |-> l[Len(l) + 1 - i]]

\* a str has no stat(): sorting a list that holds one raises AttributeError
HasStr(l) == \E i \in DOMAIN l : l[i].type = "str"

-----------------------------------------------------------------------------
(* M3U.create_playlist: the set of its possible outcomes [exc, file, out]   *)

M3uExt == <<".", "m", "3", "u">>

\* the lines of a playlist file
Header == [tag |-> "#EXTM3U", index |-> 0, text |-> <<>>]

ExtInf(i, title) == [tag |-> "#EXTINF", index |-> i, text |-> title]

PathLine(path) == [tag |-> "path", index |-> 0, text |-> path]

\* str(Path): the directory, a slash, the entry's name
PathStr(source, n) == source \o <<"/">> \o n

\* i.name.replace(i.suffix, '')
Title(name) == Remove(name, suffix(name))

\* pls.write('#EXTM3U\n'), then for i, s in enumerate(entries):
\* pls.write(f'#EXTINF:{i},{s[0]}\n{s[1]}\n')
PlaylistLines(source, entries) ==
    [j \in 1..(2 * Len(entries) + 1) |->
        IF j = 1 THEN Header
        ELSE LET i == (j - 2) \div 2
             IN  IF (j - 2) % 2 = 0
                 THEN ExtInf(i, entries[i + 1][1])
                 ELSE PathLine(PathStr(source, entries[i + 1][2].name))]

create_playlist(source) ==
    {IF HasStr(r.ret)
     THEN [exc |-> "AttributeError", file |-> playlist, out |-> r.out]
     ELSE LET sort_songs == sorted(r.ret)
              titled == [i \in DOMAIN sort_songs |->
                            <<Title(sort_songs[i].name), sort_songs[i]>>]
              playlist_name ==
                  get_valid_filename(PathName(source) \o M3uExt, DefaultRm)
          IN  [exc |-> "none",
               file |-> [exists |-> TRUE, name |-> playlist_name,
                         lines |-> PlaylistLines(source, reversed(titled))],
               out |-> r.out \o <<Msg("playlist created", source)>>] :
     r \in get_file_list(source, "s")}

-----------------------------------------------------------------------------
(* M3U.copy_sorted_songs, one action per iteration of its loop              *)

\* the name in f'{dest_path}//{s.name}.{s.suffix}'
DestName(name) == name \o <<".">> \o suffix(name)

\* a faulty variant: an existing destination file is overwritten
exists_Never(dest_file) == FALSE

\* os.path.exists(dest_file)
exists(dest_file) == dest_file \in DOMAIN destDir.files

\* a faulty variant: shutil.copy2, which carries the source's timestamp over
copyfile_WithStat(entry, t) == [data |-> entry.data, mtime |-> entry.mtime]

\* shutil.copyfile at time t: the bytes of the source in a file written at t
copyfile(entry, t) == [data |-> entry.data, mtime |-> t]

\* the files f with name d (re)written as e
WithFile(f, d, e) == [n \in DOMAIN f \cup {d} |-> IF n = d THEN e ELSE f[n]]

Logged(s, d, what, t) == [src |-> s, dest |-> d, what |-> what, at |-> t]

\* lines 148-153: mkdir, the enumeration, the sort
CopyStart ==
    /\ pc = "idle"
    /\ \E src_path \in {SrcPath, A_mp3} :
         \E r \in get_file_list(src_path, "s") :
            /\ call' = [op |-> "copy_sorted_songs", src_path |-> src_path,
                        pre |-> destDir.files]
            /\ destDir' = [exists |-> TRUE, files |-> destDir.files]
            /\ copyLog' = <<>>
            /\ IF HasStr(r.ret)
               THEN /\ result' = [none |-> TRUE, ret |-> <<>>,
                                  exc |-> "AttributeError"]
                    /\ console' = r.out
                    /\ UNCHANGED <<pc, todo>>
               ELSE /\ result' = NoResult
                    /\ console' = r.out \o <<Msg("start copying", src_path)>>
                    /\ todo' = sorted(r.ret)
                    /\ pc' = "copy"
    /\ UNCHANGED <<srcDir, now, playlist, lines, idx, probes, handles>>

\* lines 154-159: one iteration; copying a directory raises IsADirectoryError
CopyStep ==
    /\ pc = "copy"
    /\ todo # <<>>
    /\ LET s == Head(todo)
           dest_file == DestName(s.name)
       IN  /\ console' = Append(console, Msg("copying", s.name))
           /\ IF exists(dest_file)
              THEN /\ copyLog' = Append(copyLog, Logged(s.name, dest_file, "skipped", now))
                   /\ todo' = Tail(todo)
                   /\ UNCHANGED <<destDir, now, pc, result>>
              ELSE IF srcDir[s.name].kind = "dir"
                   THEN /\ copyLog' = Append(copyLog, Logged(s.name, dest_file, "failed", now))
                        /\ todo' = <<>>
                        /\ pc' = "idle"
                        /\ result' = [none |-> TRUE, ret |-> <<>>,
                                      exc |-> "IsADirectoryError"]
                        /\ UNCHANGED <<destDir, now>>
                   ELSE \E t \in {now, now + 1} :
                           /\ now' = t
                           /\ destDir' = [destDir EXCEPT !.files =
                                  WithFile(@, dest_file, copyfile(srcDir[s.name], t))]
                           /\ copyLog' = Append(copyLog, Logged(s.name, dest_file, "copied", t))
                           /\ todo' = Tail(todo)
                           /\ UNCHANGED <<pc, result>>
    /\ UNCHANGED <<srcDir, call, playlist, lines, idx, probes, handles>>

\* line 160
CopyDone ==
    /\ pc = "copy"
    /\ todo = <<>>
    /\ pc' = "idle"
    /\ console' = Append(console, Msg("copying done", <<>>))
    /\ UNCHANGED <<srcDir, destDir, now, call, result, playlist, todo, copyLog,
                   lines, idx, probes, handles>>

-----------------------------------------------------------------------------
(* M3U.check_stream                                                        *)

\* what urlopen(url, timeout) may do: return a response with status 200 or
\* with another status, return a response with no status (a file: URL),
\* raise HTTPError (a 4xx or 5xx answer), URLError (refused, unknown host or
\* scheme), a timeout, or ValueError (a malformed URL)
Outcomes == {"200", "204", "nocode", "HTTPError", "URLError", "timeout",
             "ValueError"}

Raising == {"HTTPError", "URLError", "timeout", "ValueError"}

\* the outcomes that leave a response object behind (HTTPError carries one)
WithResponse == {"200", "204", "nocode", "HTTPError"}

\* response.getcode(); -1 stands for None
getcode(outcome) ==
    CASE outcome = "200" -> 200
      [] outcome = "204" -> 204
      [] OTHER -> -1

\* a faulty variant: any response at all counts as a live stream
check_stream_AnyResponse(outcome) ==
    [ret |-> outcome \notin Raising, exc |-> "none"]

\* try: code = urlopen(...).getcode()  except: code = 0;  return code == 200
check_stream(outcome) ==
    LET code == IF outcome \in Raising THEN 0 ELSE getcode(outcome)
    IN  [ret |-> code = 200, exc |-> "none"]

\* the response is never closed by the code: it is closed when the runtime
\* reclaims it, at once or at some later collection
Response(url) == [kind |-> "response", of |-> url]

AfterProbe(url, outcome) ==
    IF outcome \in WithResponse THEN {handles, handles \cup {Response(url)}}
    ELSE {handles}

CheckStream(urls) ==
    /\ pc = "idle"
    /\ \E url \in urls, outcome \in Outcomes :
          /\ call' = [op |-> "check_stream", url |-> url, outcome |-> outcome]
          /\ result' = [none |-> FALSE, ret |-> check_stream(outcome).ret,
                        exc |-> check_stream(outcome).exc]
          /\ handles' \in AfterProbe(url, outcome)
    /\ UNCHANGED <<srcDir, destDir, now, pc, console, playlist, todo, copyLog,
                   lines, idx, probes>>

\* the runtime reclaims a response nothing refers to any more
Finalize ==
    /\ \E h \in handles : handles' = handles \ {h}
    /\ UNCHANGED <<srcDir, destDir, now, pc, call, result, console, playlist,
                   todo, copyLog, lines, idx, probes>>

-----------------------------------------------------------------------------
(* M3U.check_urls, one action per playlist file and per line               *)

Http == <<"h", "t", "t", "p">>

Rtps == <<"r", "t", "p", "s">>

\* v.startswith('http') or v.startswith('rtps')
IsUrlLine(v) == StartsWith(v, Http) \/ StartsWith(v, Rtps)

\* a faulty variant: the title looked up on the URL's own line
PrevIndex_Same(ls, i) == i + 1

\* the place in ls (from 1) of lines[i - 1]: index -1 is the last line
PrevIndex(ls, i) == IF i = 0 THEN Len(ls) ELSE i

\* lines[i-1].split(",")[-1]
TitleFor(ls, i) == LastSegment(ls[PrevIndex(ls, i)], ",")

\* line 109: the playlists to check
CheckUrlsStart(sources) ==
    /\ pc = "idle"
    /\ \E source \in sources :
         \E r \in get_file_list(source, "p") :
            /\ call' = [op |-> "check_urls", source |-> source]
            /\ todo' = r.ret
            /\ console' = r.out
    /\ pc' = "urls"
    /\ result' = NoResult
    /\ lines' = <<>>
    /\ idx' = 0
    /\ probes' = <<>>
    /\ UNCHANGED <<srcDir, destDir, now, playlist, copyLog, handles>>

\* lines 110-112: the file is opened, read and closed again by the with
\* statement; opening a directory raises IsADirectoryError
OpenPlaylist ==
    /\ pc = "urls"
    /\ todo # <<>>
    /\ LET f == Head(todo)
       IN  /\ console' = Append(console, Msg("checking", f.name))
           /\ IF srcDir[f.name].kind = "dir"
              THEN /\ pc' = "idle"
                   /\ result' = [none |-> TRUE, ret |-> <<>>,
                                 exc |-> "IsADirectoryError"]
                   /\ todo' = <<>>
                   /\ UNCHANGED <<lines, idx, probes>>
              ELSE /\ lines' = srcDir[f.name].data
                   /\ idx' = 0
                   /\ probes' = <<>>
                   /\ todo' = Tail(todo)
                   /\ pc' = "lines"
                   /\ UNCHANGED result
    /\ UNCHANGED <<srcDir, destDir, now, call, playlist, copyLog, handles>>

\* lines 113-116: one line of the playlist
CheckLine ==
    /\ pc = "lines"
    /\ idx < Len(lines)
    /\ LET v == lines[idx + 1]
       IN  IF IsUrlLine(v)
           THEN \E outcome \in Outcomes :
                   LET live == check_stream(outcome).ret
                   IN  /\ probes' = Append(probes, [i |-> idx, live |-> live])
                       /\ handles' \in AfterProbe(v, outcome)
                       /\ console' = IF live THEN console
                                     ELSE Append(console,
                                                 Msg("broken", TitleFor(lines, idx)))
           ELSE UNCHANGED <<probes, handles, console>>
    /\ idx' = idx + 1
    /\ UNCHANGED <<srcDir, destDir, now, pc, call, result, playlist, todo,
                   copyLog, lines>>

\* the lines of the file are exhausted: on to the next file
LinesDone ==
    /\ pc = "lines"
    /\ idx = Len(lines)
    /\ pc' = "urls"
    /\ UNCHANGED <<srcDir, destDir, now, call, result, console, playlist, todo,
                   copyLog, lines, idx, probes, handles>>

\* the files are exhausted: check_urls returns
CheckUrlsDone ==
    /\ pc = "urls"
    /\ todo = <<>>
    /\ pc' = "idle"
    /\ UNCHANGED <<srcDir, destDir, now, call, result, console, playlist, todo,
                   copyLog, lines, idx, probes, handles>>

-----------------------------------------------------------------------------
(* The enumerator alone: get_file_list on a directory, on a file in it and *)
(* on a path that does not exist                                           *)

InitEnum ==
    /\ srcDir \in Dirs(AllNames, 1)
    /\ destDir = NoDest
    /\ Quiet

GetFileList ==
    /\ pc = "idle"
    /\ \E source \in {SrcPath} \cup AllNames, filetype \in {"p", "s", "x"} :
         \E r \in get_file_list(source, filetype) :
            /\ call' = [op |-> "get_file_list", source |-> source,
                        filetype |-> filetype]
            /\ result' = [none |-> r.none, ret |-> r.ret, exc |-> "none"]
            /\ console' = r.out
    /\ UNCHANGED <<srcDir, destDir, now, pc, playlist, todo, copyLog, lines,
                   idx, probes, handles>>

NextEnum == GetFileList

SpecEnum == InitEnum /\ [][NextEnum]_vars

\* the names in the list the last call returned
RetNames == {result.ret[i].name : i \in DOMAIN result.ret}

EnumExts == IF call.filetype = "p" THEN playlists ELSE songs

\* C5: get_file_list with the Song (Playlist) selector on a directory returns
\* exactly the entries directly inside it that are files whose extension is
\* in the selector's set, each once; on an existing file it returns the
\* one-element list of that file iff the file's extension is in the set, and
\* the empty list otherwise.
C5_ExactEnumeration ==
    (call.op = "get_file_list" /\ call.filetype \in {"p", "s"}) =>
        /\ call.source = SrcPath =>
              /\ RetNames = {n \in DOMAIN srcDir :
                                /\ srcDir[n].kind = "file"
                                /\ InTuple(suffix(n), EnumExts)}
              /\ Len(result.ret) = Cardinality(RetNames)
        /\ is_file(call.source) =>
              IF InTuple(suffix(call.source), EnumExts)
              THEN result.ret = <<Str(call.source)>>
              ELSE result.ret = <<>>

-----------------------------------------------------------------------------
(* The sanitizer alone *)

NameAlphabet == {"a", " ", "-", "%"}

RmStrs == {DefaultRm, <<>>, <<"-">>, <<" ">>, <<"a", "-">>, <<"%", " ">>}

InitName ==
    /\ srcDir = <<>>
    /\ destDir = NoDest
    /\ Quiet

GetValidFilename ==
    /\ pc = "idle"
    /\ \E src_str \in StringsUpTo(NameAlphabet, MaxLen), rm_str \in RmStrs :
          /\ call' = [op |-> "get_valid_filename", src_str |-> src_str,
                      rm_str |-> rm_str]
          /\ result' = [none |-> FALSE, exc |-> "none",
                        ret |-> get_valid_filename(src_str, rm_str)]
    /\ UNCHANGED <<srcDir, destDir, now, pc, console, playlist, todo, copyLog,
                   lines, idx, probes, handles>>

NextName == GetValidFilename

SpecName == InitName /\ [][NextName]_vars

\* C7: for every input string and every disallowed-character set, the result
\* of get_valid_filename contains no disallowed character and no space.
C7_NoDisallowedNoSpace ==
    call.op = "get_valid_filename" =>
        \A i \in DOMAIN result.ret :
            /\ ~CharIn(result.ret[i], call.rm_str)
            /\ result.ret[i] # " "

-----------------------------------------------------------------------------
(* The playlist generator alone *)

SongDirNames == {A_mp3, B_m4a, C_flac, X_mp3_mp3, Dot_mp3, D_txt, G_mp3}

InitPlaylist ==
    /\ srcDir \in Dirs(SongDirNames, MaxMtime)
    /\ destDir = NoDest
    /\ Quiet

CreatePlaylist ==
    /\ pc = "idle"
    /\ \E source \in {SrcPath, A_mp3, D_txt, G_mp3} :
         \E o \in create_playlist(source) :
            /\ call' = [op |-> "create_playlist", source |-> source]
            /\ result' = [none |-> TRUE, ret |-> <<>>, exc |-> o.exc]
            /\ playlist' = o.file
            /\ console' = o.out
    /\ UNCHANGED <<srcDir, destDir, now, pc, todo, copyLog, lines, idx, probes,
                   handles>>

NextPlaylist == CreatePlaylist

SpecPlaylist == InitPlaylist /\ [][NextPlaylist]_vars

\* the entries of the source directory the Song enumeration returns
SongSet == UNION {glob(SrcPath, songs[i]) : i \in DOMAIN songs}

\* the entry a line of the playlist names: what follows the directory's path
NameOfPath(text) == SubSeq(text, Len(SrcPath) + 2, Len(text))

\* the k-th entry (from 0) of the playlist written: its #EXTINF line and its path
InfLine(k) == playlist.lines[2 * k + 2]

EntryName(k) == NameOfPath(playlist.lines[2 * k + 3].text)

PlaylistOfDir ==
    call.op = "create_playlist" /\ call.source = SrcPath /\ result.exc = "none"

\* C1: create_playlist on a directory writes #EXTM3U and then exactly one
\* (#EXTINF, path) entry per file of the Song enumeration, each file once,
\* newest first, the k-th entry (from 0) carrying index k.
C1_PlaylistNewestFirst ==
    PlaylistOfDir =>
        LET n == Cardinality(SongSet)
        IN  /\ playlist.exists
            /\ Len(playlist.lines) = 2 * n + 1
            /\ playlist.lines[1] = Header
            /\ \A k \in 0..(n - 1) :
                  /\ InfLine(k).tag = "#EXTINF"
                  /\ InfLine(k).index = k
                  /\ playlist.lines[2 * k + 3].tag = "path"
                  /\ playlist.lines[2 * k + 3].text = PathStr(SrcPath, EntryName(k))
            /\ {EntryName(k) : k \in 0..(n - 1)} = SongSet
            /\ \A k, m \in 0..(n - 1) :
                  k < m => srcDir[EntryName(k)].mtime >= srcDir[EntryName(m)].mtime

\* C1's case: files modified at A < B < C, listed C, B, A with indices 0, 1, 2
C1_Witness ==
    /\ PlaylistOfDir
    /\ DOMAIN srcDir = {A_mp3, B_m4a, C_flac}
    /\ srcDir[A_mp3].mtime < srcDir[B_m4a].mtime
    /\ srcDir[B_m4a].mtime < srcDir[C_flac].mtime
    /\ <<EntryName(0), EntryName(1), EntryName(2)>> = <<C_flac, B_m4a, A_mp3>>
    /\ <<InfLine(0).index, InfLine(1).index, InfLine(2).index>> = <<0, 1, 2>>

\* pathlib's stem: the name without its final suffix
Stem(name) == SubSeq(name, 1, Len(name) - Len(suffix(name)))

\* C9: the title of each #EXTINF line is the file's name with its final
\* suffix stripped and the rest of the name unchanged.
C9_TitleIsStem ==
    PlaylistOfDir =>
        \A k \in 0..(Cardinality(SongSet) - 1) :
            InfLine(k).text = Stem(EntryName(k))

-----------------------------------------------------------------------------
(* The sorted copy alone *)

CopyDirNames == {A_mp3, B_m4a, X_mp3_mp3, D_txt, G_mp3}

Old == <<"o", "l", "d">>

\* the destination files there may be before the copy
PreNames == {DestName(A_mp3), DestName(X_mp3_mp3)}

InitCopy ==
    /\ srcDir \in Dirs(CopyDirNames, MaxMtime)
    /\ destDir \in {NoDest} \cup
           {[exists |-> TRUE, files |-> [n \in S |-> [data |-> Old, mtime |-> 1]]] :
                S \in SUBSET PreNames}
    /\ Quiet

NextCopy == CopyStart \/ CopyStep \/ CopyDone

SpecCopy == InitCopy /\ [][NextCopy]_vars

\* a copy of the source directory has returned
CopyCompleted ==
    /\ call.op = "copy_sorted_songs" /\ call.src_path = SrcPath
    /\ pc = "idle" /\ result.exc = "none"

\* C2: after copy_sorted_songs completes, every Song file of the source has a
\* file at its destination name; a file that was at a destination name
\* before the copy is skipped, keeps its content, and raises no error.
C2_AllPresentExistingKept ==
    call.op = "copy_sorted_songs" =>
        /\ CopyCompleted =>
              \A n \in SongSet : DestName(n) \in DOMAIN destDir.files
        /\ \A d \in DOMAIN call.pre :
              d \in DOMAIN destDir.files /\ destDir.files[d] = call.pre[d]
        /\ \A i \in DOMAIN copyLog :
              copyLog[i].dest \in DOMAIN call.pre => copyLog[i].what = "skipped"

\* C2's case: a completed copy of three songs, one of them skipped
C2_Witness ==
    /\ CopyCompleted
    /\ Cardinality(SongSet) = 3
    /\ \E i \in DOMAIN copyLog :
          /\ copyLog[i].what = "skipped"
          /\ copyLog[i].dest \in DOMAIN call.pre
          /\ destDir.files[copyLog[i].dest].data = Old
    /\ \E i \in DOMAIN copyLog : copyLog[i].what = "copied"

C4_ContentsAndMetadata ==
    \A i \in DOMAIN copyLog :
        copyLog[i].what = "copied" =>
            /\ destDir.files[copyLog[i].dest].data = srcDir[copyLog[i].src].data
            /\ destDir.files[copyLog[i].dest].mtime = srcDir[copyLog[i].src].mtime

\* C4 as amended: a copied file has the source's contents, and the time of
\* the copy as its last-modified timestamp.
C4_ContentsAndCopyTime ==
    \A i \in DOMAIN copyLog :
        copyLog[i].what = "copied" =>
            /\ destDir.files[copyLog[i].dest].data = srcDir[copyLog[i].src].data
            /\ destDir.files[copyLog[i].dest].mtime = copyLog[i].at

\* C4's case: a file copied later than it was last modified
C4_Witness ==
    \E i \in DOMAIN copyLog :
        /\ copyLog[i].what = "copied"
        /\ copyLog[i].at > srcDir[copyLog[i].src].mtime
        /\ destDir.files[copyLog[i].dest].data = copyLog[i].src

-----------------------------------------------------------------------------
(* The stream checker and the playlist URL validator *)

NL == "\n"

L_inf == <<"#", "E", "X", "T", "I", "N", "F", ":", "0", ",", "x", ",", "T", NL>>

L_http == <<"h", "t", "t", "p", ":", "/", "/", "a", ",", "b", NL>>

L_rtps == <<"r", "t", "p", "s", ":", "/", "/", "c", NL>>

L_rtsp == <<"r", "t", "s", "p", ":", "/", "/", "d", NL>>

LineSet == {L_inf, L_http, L_rtps, L_rtsp}

\* a subdirectory whose name ends like a playlist's
G_m3u == <<"g", ".", "m", "3", "u">>

File(lns) == [kind |-> "file", mtime |-> 1, data |-> lns]

\* the directories of playlists: e.m3u with any lines, perhaps f.m3u8,
\* perhaps the subdirectory g.m3u
PlaylistDirs ==
    {[n \in {E_m3u} \cup S |->
         IF n = E_m3u THEN File(ls)
         ELSE IF n = F_m3u8 THEN File(<<L_inf, L_http>>)
         ELSE [kind |-> "dir", mtime |-> 1, data |-> <<>>]] :
     S \in SUBSET {F_m3u8, G_m3u}, ls \in StringsUpTo(LineSet, MaxLines)}

InitNet ==
    /\ srcDir \in PlaylistDirs
    /\ destDir = NoDest
    /\ Quiet

NextNet ==
    \/ CheckStream({L_http, L_rtps})
    \/ CheckUrlsStart({SrcPath, E_m3u, A_mp3})
    \/ OpenPlaylist
    \/ CheckLine
    \/ LinesDone
    \/ CheckUrlsDone
    \/ Finalize

SpecNet == InitNet /\ [][NextNet]_vars

\* C6: check_stream returns true exactly when the request completes with
\* status 200, false for every other outcome, and never raises.
C6_TrueIffStatus200 ==
    call.op = "check_stream" =>
        /\ result.exc = "none"
        /\ result.ret = (call.outcome = "200")

\* C6's case: the server answers 404 (urlopen raises) and the call returns
\* false
C6_Witness ==
    /\ call.op = "check_stream"
    /\ call.outcome = "HTTPError"
    /\ result.ret = FALSE
    /\ result.exc = "none"

\* C8: every handle an operation opened is released before it returns: none
\* is open between operations.
C8_NoHandleLeftOpen == pc = "idle" => handles = {}

\* the diagnostics printed for the playlist being checked: what follows the
\* last "checking" line
RECURSIVE SinceChecking(_)
SinceChecking(out) ==
    IF out = <<>> \/ out[Len(out)].msg = "checking" THEN <<>>
    ELSE Append(SinceChecking(SubSeq(out, 1, Len(out) - 1)), out[Len(out)])

BrokenTitles ==
    LET b == SelectSeq(SinceChecking(console), LAMBDA m : m.msg = "broken")
    IN  [k \in DOMAIN b |-> b[k].arg]

\* the lines read so far that start with http or rtps, in file order
RECURSIVE UrlIndices(_)
UrlIndices(n) ==
    IF n = 0 THEN <<>>
    ELSE IF StartsWith(lines[n], Http) \/ StartsWith(lines[n], Rtps)
         THEN Append(UrlIndices(n - 1), n - 1)
         ELSE UrlIndices(n - 1)

\* C10: a diagnostic is printed for exactly the lines that start with http
\* or rtps and for which check_stream returned false, one each, in file
\* order; the title for the line at index i is the last comma-separated
\* segment of the line at index i-1, the last line of the file for i = 0.
C10_BrokenLinkDiagnostics ==
    pc = "lines" =>
        /\ [k \in DOMAIN probes |-> probes[k].i] = UrlIndices(idx)
        /\ LET dead == SelectSeq(probes, LAMBDA q : ~q.live)
           IN  BrokenTitles =
                 [k \in DOMAIN dead |->
                     LastSegment(IF dead[k].i = 0 THEN lines[Len(lines)]
                                 ELSE lines[dead[k].i], ",")]

\* C10's case: the first line is a dead link, a later one too, and the run
\* went on after the first
C10_Witness ==
    /\ pc = "lines"
    /\ idx = Len(lines)
    /\ Len(BrokenTitles) = 2
    /\ probes[1].i = 0
    /\ lines[Len(lines)] = L_http
    /\ BrokenTitles[1] = <<"b", NL>>

====
